---- MODULE Spec2Model ----
(***************************************************************************)
(* The sentiment-analysis pipeline of crypto-sentinel-probe:               *)
(*   server/orchestrator/workflowManager.ts  (WorkflowManager)             *)
(*   server/agents/dataHarvester.ts          (DataHarvesterAgent)          *)
(*   server/agents/nlpProcessor.ts           (NLPProcessorAgent)           *)
(*   server/agents/marketCorrelator.ts       (MarketCorrelatorAgent)       *)
(*                                                                         *)
(* JavaScript runs every handler to completion; a workflow task gives up   *)
(* control only at the `await executor()` of executeStep, where the stage  *)
(* call (harvest, NLP batch, correlation) is in flight.  One action of the *)
(* model is therefore one handler, or one continuation of a workflow task  *)
(* from the settlement of its stage call up to its next stage call.        *)
(* The stage calls are awaited calls of the agents (network calls in       *)
(* production, dataHarvester.ts line 56, marketCorrelator.ts line 42): any *)
(* handler may run while one is in flight, and it may return or throw.     *)
(* A call of correlateWithSentiment made on its own gives up control at    *)
(* its two awaits (marketCorrelator.ts lines 75 and 76); the orchestrator  *)
(* specifications take the stage call as one step and leave the            *)
(* correlator's histories alone.                                           *)
(*                                                                         *)
(* Optional fields of the TypeScript interfaces (`output?`, `endTime?`,    *)
(* `error?`, `data.result`) are sets with at most one element: {} is       *)
(* undefined.                                                              *)
(***************************************************************************)
EXTENDS Integers, Sequences, FiniteSets, TLC

VARIABLES
  activeWorkflows,     \* keys of WorkflowManager.activeWorkflows (Map id -> record)
  completedWorkflows,  \* WorkflowManager.completedWorkflows: sequence of record references
  wf,                  \* the WorkflowState objects, by workflowId
  pc,                  \* position of each executeWorkflow task
  now,                 \* Date.now()
  last,                \* the handler or continuation that ran last, with what it returned
  priceHistory,        \* MarketCorrelatorAgent.priceHistory (Map symbol -> MarketData[])
  sentimentHistory,    \* MarketCorrelatorAgent.sentimentHistory (Map symbol -> SentimentData[])
  calls,               \* the calls of correlateWithSentiment, in flight or returned
  seen,                \* what the correlator did last
  probe                \* the arguments of one call of a function that keeps no
                       \* state, with what the call returns (out)

managerVars == <<activeWorkflows, completedWorkflows, wf, pc, now, last>>
correlatorVars == <<priceHistory, sentimentHistory, calls, seen>>
vars == <<managerVars, correlatorVars, probe>>

(***************************************************************************)
(* Bounds of the model.                                                    *)
(***************************************************************************)
MaxWorkflows == 1      \* workflows started in one behaviour of Spec
MaxTime == 1           \* clock ticks in one behaviour of Spec
SeqRuns == 101         \* workflows started, one after the other, in SpecSeq
MetricRuns == 3        \* workflows started in one behaviour of SpecRuns
MaxCalls == 3          \* calls of correlateWithSentiment in one behaviour of SpecCorr
SeqCalls == 12         \* calls of nine items, one after the other, in SpecCorrSeq

(***************************************************************************)
(* Inputs.                                                                 *)
(***************************************************************************)
Undefined == ""        \* no symbol given (undefined; "" takes the same branches)

\* The symbols a harvest is asked for (POST /api/process/harvest takes any
\* string): the symbols with a full name, a symbol that occurs in no sample,
\* and short strings that occur in different samples.
HarvestSymbols ==
  {"BTC", "ETH", "ADA", "SOL", "DOT", "MATIC", "AVAX", "LINK", "XYZ",
   "AC", "AI", "AK", "AM", "AR", "AU", "BE", "BT", "BY", "CE", "CO",
   "CT", "DE", "DL", "DU", "EC", "EF", "EN", "ET", "FA", "GA", "HA",
   "HI", "IN", "LD", "LI", "ME", "MO", "NC", "NE", "NI", "OD", "OL",
   "OP", "OS", "PA", "PT", "RE", "RT", "SE", "SU", "TE", "TO", "TY",
   "UL", "VE", "ATI", "DOP", "ONG", "POR", "VER"}
Symbols == {"BTC", "MATIC"}   \* the symbols Spec starts workflows for
CancelMsg == "Cancelled by user"
Errors == {"source unavailable"}    \* messages of the errors a stage call may throw

(***************************************************************************)
(* dataHarvester.ts                                                        *)
(***************************************************************************)

\* getFullName: the symbols that have a full name in cryptoNames
cryptoNames == {"BTC", "ETH", "ADA", "SOL", "DOT", "MATIC", "AVAX", "LINK"}

\* One sample text, by what the harvester and the entity extraction read of it:
\*   kw       number of cryptoKeywords that occur in the lower-cased text
\*   has      symbols of HarvestSymbols that occur in it, ignoring case
\*   names    symbols of cryptoNames whose full name occurs in it, ignoring case
\*   len      content.length
\*   http, pct, dollar   'http', /\d+%/ and /\$\d+/ occur
\*   entities result of extractCryptoEntities (symbols, in table order)
Text(kw, has, names, len, http, pct, dollar, entities) ==
  [kw |-> kw, has |-> has, names |-> names, len |-> len, http |-> http,
   pct |-> pct, dollar |-> dollar, entities |-> entities]

sampleData == <<
  [id |-> "1", source |-> "reddit_crypto",
   content |-> Text(1,
     {"BTC", "AM", "BE", "BT", "CO", "CT", "EC", "EF", "HA", "HI", "IN",
      "LD", "MO", "NE", "NI", "OP", "RE", "RT", "SU", "TY", "UL", "ONG",
      "POR"},
     {}, 127, FALSE, FALSE, TRUE, <<"BTC">>)],
  [id |-> "2", source |-> "reddit_bitcoin",
   content |-> Text(2,
     {"ETH", "AK", "AR", "BY", "CE", "CO", "DE", "DU", "EN", "ET", "LI",
      "NE", "OL", "PT", "RE", "SE", "SU", "TE", "UL", "VE", "ONG", "VER"},
     {"ETH"}, 137, FALSE, TRUE, FALSE, <<"ETH">>)],
  [id |-> "3", source |-> "coindesk_news",
   content |-> Text(3,
     {"SOL", "AI", "AM", "AR", "DE", "EF", "GA", "HA", "HI", "IN", "NC",
      "NE", "OL", "OP", "PT", "RE", "SE", "TE", "TO", "VE", "DOP"},
     {"SOL"}, 128, FALSE, TRUE, FALSE, <<"SOL">>)],
  [id |-> "4", source |-> "reddit_crypto",
   content |-> Text(1,
     {"ADA", "AR", "BE", "CO", "DU", "EF", "EN", "HA", "IN", "LD", "ME",
      "MO", "NC", "NI", "OS", "RE", "SE", "UL", "VE"},
     {}, 106, FALSE, FALSE, FALSE, <<"ADA">>)],
  [id |-> "5", source |-> "reddit_crypto",
   content |-> Text(1,
     {"AR", "DL", "HI", "IN", "LI", "MO", "NE", "OD", "OL", "PA", "RE",
      "RT", "SE", "TE", "TO", "VE", "POR", "VER"},
     {}, 120, FALSE, TRUE, FALSE, <<>>)],
  [id |-> "6", source |-> "coindesk_news",
   content |-> Text(1,
     {"AC", "AI", "AR", "BE", "CE", "CO", "CT", "EN", "ET", "FA", "GA",
      "HA", "IN", "ME", "NC", "PA", "PT", "RE", "RT", "SE", "TO", "TY",
      "UL", "VE", "ATI", "VER"},
     {}, 125, FALSE, FALSE, FALSE, <<>>)],
  [id |-> "7", source |-> "reddit_bitcoin",
   content |-> Text(1,
     {"AC", "AR", "BE", "BY", "CE", "CO", "HI", "IN", "NI", "OP", "OS",
      "PT", "RE", "TE", "ATI", "DOP", "POR"},
     {"BTC"}, 127, FALSE, FALSE, FALSE, <<"BTC">>)],
  [id |-> "8", source |-> "reddit_crypto",
   content |-> Text(2,
     {"DOT", "AC", "AI", "AM", "AR", "AU", "CO", "CT", "EC", "EN", "HA",
      "IN", "ME", "NE", "OD", "OL", "OS", "PA", "TE", "VE", "ONG", "VER"},
     {"DOT"}, 107, FALSE, FALSE, FALSE, <<"DOT">>)] >>

\* The elements of s that satisfy keep, in order; keep is a sequence of booleans.
RECURSIVE SelectAt(_, _)
SelectAt(s, keep) ==
  IF s = <<>> THEN <<>>
  ELSE (IF Head(keep) THEN <<Head(s)>> ELSE <<>>) \o SelectAt(Tail(s), Tail(keep))

\* simulateDataHarvesting: the samples, filtered by the symbol when one is given.
\* A symbol without a full name tests includes(''), which every text passes.
simulateDataHarvesting(cryptoSymbol) ==
  IF cryptoSymbol # Undefined
  THEN SelectAt(sampleData,
         [i \in 1..Len(sampleData) |->
            \/ cryptoSymbol \in sampleData[i].content.has
            \/ IF cryptoSymbol \in cryptoNames
               THEN cryptoSymbol \in sampleData[i].content.names
               ELSE TRUE])
  ELSE sampleData

\* A relevance score is an IEEE double, written <<n, e>>: the double nearest to
\* n/10, moved by e units in the last place.  FAdd(x, d) is the double x + d/10
\* for the sums calculateRelevanceScore forms (0.2 per keyword, then 0.5, 0.4,
\* then 0.1 up to four times).  Sums of at least 1 are all cut to 1 by
\* Math.min(1, score); their last place is not tracked.
FAdd(x, d) ==
  LET n == x[1] + d IN
  CASE n >= 10 -> <<n, 0>>
    [] x = <<2, 0>> /\ d = 1 -> <<3, 1>>
    [] x = <<2, 0>> /\ d = 4 -> <<6, 1>>
    [] x = <<3, 1>> /\ d = 1 -> <<4, 0>>
    [] x = <<4, 0>> /\ d = 2 -> <<6, 1>>
    [] x = <<6, 1>> /\ d = 1 -> <<7, 1>>
    [] x = <<6, 1>> /\ d = 2 -> <<8, 0>>
    [] x = <<7, 0>> /\ d = 1 -> <<8, -1>>
    [] x = <<7, 1>> /\ d = 1 -> <<8, 0>>
    [] x = <<8, -1>> /\ d = 1 -> <<9, -1>>
    [] OTHER -> <<n, x[2]>>

FGreater(x, y) == x[1] > y[1] \/ (x[1] = y[1] /\ x[2] > y[2])

RECURSIVE FAddTimes(_, _, _)
FAddTimes(x, d, k) == IF k = 0 THEN x ELSE FAddTimes(FAdd(x, d), d, k - 1)

calculateRelevanceScore(content, targetSymbol) ==
  LET s0 == FAddTimes(<<0, 0>>, 2, content.kw)
      s1 == IF targetSymbol # Undefined /\ targetSymbol \in content.has
            THEN FAdd(s0, 5) ELSE s0
      s2 == IF targetSymbol # Undefined /\ targetSymbol \in cryptoNames
               /\ targetSymbol \in content.names
            THEN FAdd(s1, 4) ELSE s1
      s3 == IF content.len > 50 /\ content.len < 500 THEN FAdd(s2, 1) ELSE s2
      s4 == IF content.http THEN FAdd(s3, 1) ELSE s3
      s5 == IF content.pct THEN FAdd(s4, 1) ELSE s4
      s6 == IF content.dollar THEN FAdd(s5, 1) ELSE s5
  IN IF s6[1] >= 10 THEN <<10, 0>> ELSE s6

\* Array.prototype.sort with the comparator (a, b) => b.relevanceScore -
\* a.relevanceScore: a stable sort, largest first.  InsertDesc puts x behind
\* every element that is not smaller.
RECURSIVE InsertDesc(_, _)
InsertDesc(s, x) ==
  IF s = <<>> THEN <<x>>
  ELSE IF FGreater(x.relevanceScore, Head(s).relevanceScore)
       THEN <<x>> \o s
       ELSE <<Head(s)>> \o InsertDesc(Tail(s), x)

RECURSIVE SortByRelevance(_)
SortByRelevance(s) ==
  IF s = <<>> THEN <<>>
  ELSE InsertDesc(SortByRelevance(SubSeq(s, 1, Len(s) - 1)), s[Len(s)])

RelevanceFloor == <<3, 0>>     \* the double 0.3

\* harvestData without the final sort
harvestData_Unsorted(cryptoSymbol) ==
  LET simulatedData == simulateDataHarvesting(cryptoSymbol)
      scored == [i \in 1..Len(simulatedData) |->
                   [id |-> simulatedData[i].id,
                    source |-> simulatedData[i].source,
                    content |-> simulatedData[i].content,
                    cryptoSymbols |-> simulatedData[i].content.entities,
                    relevanceScore |->
                      calculateRelevanceScore(simulatedData[i].content, cryptoSymbol)]]
  IN SelectAt(scored, [i \in 1..Len(scored) |->
                         FGreater(scored[i].relevanceScore, RelevanceFloor)])

harvestData(cryptoSymbol) ==
  LET simulatedData == simulateDataHarvesting(cryptoSymbol)
      scored == [i \in 1..Len(simulatedData) |->
                   [id |-> simulatedData[i].id,
                    source |-> simulatedData[i].source,
                    content |-> simulatedData[i].content,
                    cryptoSymbols |-> simulatedData[i].content.entities,
                    relevanceScore |->
                      calculateRelevanceScore(simulatedData[i].content, cryptoSymbol)]]
  IN SortByRelevance(
       SelectAt(scored, [i \in 1..Len(scored) |->
                           FGreater(scored[i].relevanceScore, RelevanceFloor)]))

(***************************************************************************)
(* nlpProcessor.ts                                                         *)
(***************************************************************************)

\* The loop of batchProcess that stops at the first item whose processing throws
ProcessEach_StopsAtThrow(contents, throws) ==
  LET n == IF \E i \in DOMAIN contents : throws[i]
           THEN (CHOOSE i \in DOMAIN contents :
                   throws[i] /\ \A j \in 1..(i - 1) : ~throws[j]) - 1
           ELSE Len(contents)
  IN [i \in 1..n |->
        [id |-> contents[i].id \o "_processed",
         originalContent |-> contents[i].content,
         entities |-> contents[i].content.entities]]

\* The loop of batchProcess (lines 80-89): each item is processed inside a
\* try; the record is renamed "<id>_processed" and pushed; a throw is logged
\* and the loop goes on.  throws[i] tells whether processContent throws for
\* item i.
RECURSIVE ProcessEach(_, _)
ProcessEach(contents, throws) ==
  IF contents = <<>> THEN <<>>
  ELSE (IF Head(throws) THEN <<>>
        ELSE <<[id |-> Head(contents).id \o "_processed",
                originalContent |-> Head(contents).content,
                entities |-> Head(contents).content.entities]>>)
       \o ProcessEach(Tail(contents), Tail(throws))

\* batchProcess on texts: processContent only reads the text with string
\* methods and throws for none.
batchProcess(contents) ==
  ProcessEach(contents, [i \in 1..Len(contents) |-> FALSE])

(***************************************************************************)
(* marketCorrelator.ts, as the orchestrator sees it: one result per input  *)
(* item, for the item's symbol.                                            *)
(***************************************************************************)
correlateWithSentiment(sentimentData) ==
  [i \in 1..Len(sentimentData) |-> [symbol |-> sentimentData[i].symbol]]

(***************************************************************************)
(* workflowManager.ts                                                      *)
(***************************************************************************)
StepIds == <<"step_1", "step_2", "step_3">>
StepNames == <<"Data Harvesting", "NLP Processing", "Market Correlation">>
StepAgents == <<"data_harvester", "nlp_processor", "market_correlator">>

NewStep(k) ==
  [id |-> StepIds[k], name |-> StepNames[k], agent |-> StepAgents[k],
   status |-> "pending", output |-> {}, startTime |-> {}, endTime |-> {},
   error |-> {}]

\* The record startSentimentAnalysisWorkflow builds (lines 44-70).
NewWorkflow(workflowId, cryptoSymbol, t) ==
  [workflowId |-> workflowId,
   status |-> "pending",
   currentStep |-> "data_harvesting",
   steps |-> [k \in 1..3 |-> NewStep(k)],
   data |-> [cryptoSymbol |-> cryptoSymbol, result |-> {}],
   startTime |-> t,
   endTime |-> {},
   error |-> {}]

\* nanoid(): an id no earlier workflow has.
FreshId == Cardinality(DOMAIN wf) + 1

\* The step a task is at: the k with pc = StepIds[k].
StepAt(p) == CHOOSE k \in 1..3 : StepIds[k] = p

InFlight(w) == w \in DOMAIN wf /\ pc[w] \in {StepIds[k] : k \in 1..3}

\* An executeStep that does not set workflow.currentStep.
EnterStep_NoCurrentStep(rec, k, t) ==
  [rec EXCEPT !.steps[k].status = "running",
              !.steps[k].startTime = {t}]

\* executeStep up to `await executor()` (lines 168-172).
EnterStep(rec, k, t) ==
  [rec EXCEPT !.steps[k].status = "running",
              !.steps[k].startTime = {t},
              !.currentStep = StepIds[k]]

\* A CompleteStep that stores the result and leaves the status as it is.
CompleteStep_KeepsRunning(rec, k, result, t) ==
  [rec EXCEPT !.steps[k].endTime = {t},
              !.steps[k].output = {result}]

\* executeStep after the executor has returned result (lines 174-178).
CompleteStep(rec, k, result, t) ==
  [rec EXCEPT !.steps[k].status = "completed",
              !.steps[k].endTime = {t},
              !.steps[k].output = {result}]

\* A FailStep that stores 'Unknown error' whatever was thrown.
FailStep_UnknownError(rec, k, error, t) ==
  [rec EXCEPT !.steps[k].status = "failed",
              !.steps[k].endTime = {t},
              !.steps[k].error = {"Unknown error"}]

\* executeStep's catch (lines 180-185).
FailStep(rec, k, error, t) ==
  [rec EXCEPT !.steps[k].status = "failed",
              !.steps[k].endTime = {t},
              !.steps[k].error = {error}]

\* The value of an optional field that is set.
The(opt) == CHOOSE x \in opt : TRUE

\* What the executor of step k of record rec returns (lines 96-98, 105-112,
\* 119-128).  harvestingResult and processingResult are the values executeStep
\* returned, which are the outputs it stored on the steps.
Executor(rec, k) ==
  CASE k = 1 -> harvestData(rec.data.cryptoSymbol)
    [] k = 2 ->
         LET harvestingResult == The(rec.steps[1].output)
         IN batchProcess([i \in 1..Len(harvestingResult) |->
                            [id |-> harvestingResult[i].id,
                             content |-> harvestingResult[i].content,
                             source |-> harvestingResult[i].source]])
    [] k = 3 ->
         LET processingResult == The(rec.steps[2].output)
         IN correlateWithSentiment(
              [i \in 1..Len(processingResult) |->
                 [symbol |->
                    IF processingResult[i].entities # <<>>
                    THEN processingResult[i].entities[1]
                    ELSE IF rec.data.cryptoSymbol # Undefined
                         THEN rec.data.cryptoSymbol
                         ELSE "BTC"]])

\* The manager's collections and records as one value, so that the private
\* methods are functions from one such value to the next.
Manager == [active |-> activeWorkflows, completed |-> completedWorkflows, heap |-> wf]

\* A markWorkflowFailed without activeWorkflows.delete.
markWorkflowFailed_KeepsActive(m, workflowId, error, t) ==
  IF workflowId \in m.active
  THEN [active |-> m.active,
        completed |-> Append(m.completed, workflowId),
        heap |-> [m.heap EXCEPT ![workflowId].status = "failed",
                                ![workflowId].error = {error},
                                ![workflowId].endTime = {t}]]
  ELSE m

\* A markWorkflowFailed that leaves the end time unset.
markWorkflowFailed_NoEndTime(m, workflowId, error, t) ==
  IF workflowId \in m.active
  THEN [active |-> m.active \ {workflowId},
        completed |-> Append(m.completed, workflowId),
        heap |-> [m.heap EXCEPT ![workflowId].status = "failed",
                                ![workflowId].error = {error}]]
  ELSE m

\* A markWorkflowFailed without completedWorkflows.push.
markWorkflowFailed_NoPush(m, workflowId, error, t) ==
  IF workflowId \in m.active
  THEN [active |-> m.active \ {workflowId},
        completed |-> m.completed,
        heap |-> [m.heap EXCEPT ![workflowId].status = "failed",
                                ![workflowId].error = {error},
                                ![workflowId].endTime = {t}]]
  ELSE m

\* markWorkflowFailed (lines 188-198).
markWorkflowFailed(m, workflowId, error, t) ==
  IF workflowId \in m.active
  THEN [active |-> m.active \ {workflowId},
        completed |-> Append(m.completed, workflowId),
        heap |-> [m.heap EXCEPT ![workflowId].status = "failed",
                                ![workflowId].error = {error},
                                ![workflowId].endTime = {t}]]
  ELSE m

\* A FinishWorkflow without completedWorkflows.push.
FinishWorkflow_NoPush(m, workflowId, t) ==
  LET rec == m.heap[workflowId] IN
  [active |-> m.active \ {workflowId},
   completed |-> m.completed,
   heap |-> [m.heap EXCEPT
               ![workflowId].status = "completed",
               ![workflowId].endTime = {t},
               ![workflowId].data.result =
                  {[harvestedData |-> The(rec.steps[1].output),
                    processedData |-> The(rec.steps[2].output),
                    correlationData |-> The(rec.steps[3].output)]}]]

\* A FinishWorkflow without activeWorkflows.delete.
FinishWorkflow_KeepsActive(m, workflowId, t) ==
  LET rec == m.heap[workflowId] IN
  [active |-> m.active,
   completed |-> Append(m.completed, workflowId),
   heap |-> [m.heap EXCEPT
               ![workflowId].status = "completed",
               ![workflowId].endTime = {t},
               ![workflowId].data.result =
                  {[harvestedData |-> The(rec.steps[1].output),
                    processedData |-> The(rec.steps[2].output),
                    correlationData |-> The(rec.steps[3].output)]}]]

\* The last lines of executeWorkflow's try block (lines 131-142).
FinishWorkflow(m, workflowId, t) ==
  LET rec == m.heap[workflowId] IN
  [active |-> m.active \ {workflowId},
   completed |-> Append(m.completed, workflowId),
   heap |-> [m.heap EXCEPT
               ![workflowId].status = "completed",
               ![workflowId].endTime = {t},
               ![workflowId].data.result =
                  {[harvestedData |-> The(rec.steps[1].output),
                    processedData |-> The(rec.steps[2].output),
                    correlationData |-> The(rec.steps[3].output)]}]]

Install(m) ==
  /\ activeWorkflows' = m.active
  /\ completedWorkflows' = m.completed
  /\ wf' = m.heap

Event(op, id, step, value, error) ==
  [op |-> op, id |-> id, step |-> step, value |-> value, error |-> error]

InitManager ==
  /\ activeWorkflows = {}
  /\ completedWorkflows = <<>>
  /\ wf = <<>>
  /\ pc = <<>>
  /\ now = 0
  /\ last = Event("none", 0, 0, FALSE, "")

\* A start that awaits the harvest before it returns.
startSentimentAnalysisWorkflow_AwaitsHarvest(cryptoSymbol) ==
  LET workflowId == FreshId
      workflow == NewWorkflow(workflowId, cryptoSymbol, now)
      running == EnterStep([workflow EXCEPT !.status = "running"], 1, now)
      harvested == CompleteStep(running, 1, Executor(running, 1), now)
  IN /\ activeWorkflows' = activeWorkflows \cup {workflowId}
     /\ wf' = wf @@ (workflowId :> EnterStep(harvested, 2, now))
     /\ pc' = pc @@ (workflowId :> StepIds[2])
     /\ last' = Event("start", workflowId, 0, TRUE, "")
     /\ UNCHANGED <<completedWorkflows, now>>

\* startSentimentAnalysisWorkflow (lines 41-81).  The call of executeWorkflow
\* in it runs, before start returns, up to the first await: the record is set
\* running and step_1 is entered (lines 84-97, 162-172).
startSentimentAnalysisWorkflow(cryptoSymbol) ==
  LET workflowId == FreshId
      workflow == NewWorkflow(workflowId, cryptoSymbol, now)
      running == [workflow EXCEPT !.status = "running"]
  IN /\ activeWorkflows' = activeWorkflows \cup {workflowId}
     /\ wf' = wf @@ (workflowId :> EnterStep(running, 1, now))
     /\ pc' = pc @@ (workflowId :> StepIds[1])
     /\ last' = Event("start", workflowId, 0, TRUE, "")
     /\ UNCHANGED <<completedWorkflows, now>>

\* A return of the last stage call after which executeWorkflow does not finish
\* the workflow.
StepReturns_NeverFinishes(w) ==
  /\ InFlight(w)
  /\ LET k == StepAt(pc[w])
         done == CompleteStep(wf[w], k, Executor(wf[w], k), now)
     IN IF k < 3
        THEN /\ wf' = [wf EXCEPT ![w] = EnterStep(done, k + 1, now)]
             /\ pc' = [pc EXCEPT ![w] = StepIds[k + 1]]
        ELSE /\ wf' = [wf EXCEPT ![w] = done]
             /\ pc' = [pc EXCEPT ![w] = "done"]
  /\ last' = Event("return", w, StepAt(pc[w]), TRUE, "")
  /\ UNCHANGED <<activeWorkflows, completedWorkflows, now>>

\* The stage call of the step in flight returns: executeStep stores the result
\* and executeWorkflow goes on, to the next step or to its end
\* (lines 172-178, then 101-142).
StepReturns(w) ==
  /\ InFlight(w)
  /\ LET k == StepAt(pc[w])
         done == CompleteStep(wf[w], k, Executor(wf[w], k), now)
     IN IF k < 3
        THEN /\ wf' = [wf EXCEPT ![w] = EnterStep(done, k + 1, now)]
             /\ pc' = [pc EXCEPT ![w] = StepIds[k + 1]]
             /\ UNCHANGED <<activeWorkflows, completedWorkflows>>
        ELSE /\ Install(FinishWorkflow([Manager EXCEPT !.heap[w] = done], w, now))
             /\ pc' = [pc EXCEPT ![w] = "done"]
  /\ last' = Event("return", w, StepAt(pc[w]), TRUE, "")
  /\ UNCHANGED now

\* A throw after which the workflow is run again from its first step.
StepThrows_StartsOver(w, error) ==
  /\ InFlight(w)
  /\ LET k == StepAt(pc[w])
     IN wf' = [wf EXCEPT ![w] = EnterStep(FailStep(wf[w], k, error, now), 1, now)]
  /\ pc' = [pc EXCEPT ![w] = StepIds[1]]
  /\ last' = Event("throw", w, StepAt(pc[w]), FALSE, error)
  /\ UNCHANGED <<activeWorkflows, completedWorkflows, now>>

\* The stage call of the step in flight throws: executeStep's catch, then
\* executeWorkflow's catch (lines 151-154), then the catch of line 75-78.
StepThrows(w, error) ==
  /\ InFlight(w)
  /\ LET k == StepAt(pc[w])
         m1 == [Manager EXCEPT !.heap[w] = FailStep(wf[w], k, error, now)]
         m2 == markWorkflowFailed(m1, w, error, now)
         m3 == markWorkflowFailed(m2, w, error, now)
     IN Install(m3)
  /\ pc' = [pc EXCEPT ![w] = "done"]
  /\ last' = Event("throw", w, StepAt(pc[w]), FALSE, error)
  /\ UNCHANGED now

\* A cancelWorkflow without the test of line 262.
cancelWorkflow_NoTest(workflowId) ==
  /\ Install(markWorkflowFailed(Manager, workflowId, CancelMsg, now))
  /\ last' = Event("cancel", workflowId, 0, TRUE, "")
  /\ UNCHANGED <<pc, now>>

\* cancelWorkflow (lines 260-267), called by DELETE /api/workflows/:workflowId.
cancelWorkflow(workflowId) ==
  IF workflowId \in activeWorkflows /\ wf[workflowId].status = "running"
  THEN /\ Install(markWorkflowFailed(Manager, workflowId, CancelMsg, now))
       /\ last' = Event("cancel", workflowId, 0, TRUE, "")
       /\ UNCHANGED <<pc, now>>
  ELSE /\ last' = Event("cancel", workflowId, 0, FALSE, "")
       /\ UNCHANGED <<activeWorkflows, completedWorkflows, wf, pc, now>>

\* The end time the comparators of lines 218 and 226 read: endTime or 0.
EndTimeOr0(w) == IF wf[w].endTime = {} THEN 0 ELSE The(wf[w].endTime)

\* Array.prototype.sort with (a, b) => b.endTime - a.endTime: stable, latest first.
RECURSIVE InsertLatestFirst(_, _)
InsertLatestFirst(s, w) ==
  IF s = <<>> THEN <<w>>
  ELSE IF EndTimeOr0(w) > EndTimeOr0(Head(s))
       THEN <<w>> \o s
       ELSE <<Head(s)>> \o InsertLatestFirst(Tail(s), w)

RECURSIVE SortLatestFirst(_)
SortLatestFirst(s) ==
  IF s = <<>> THEN <<>>
  ELSE InsertLatestFirst(SortLatestFirst(SubSeq(s, 1, Len(s) - 1)), s[Len(s)])

\* getCompletedWorkflows (lines 216-220), called by GET /api/workflows: sort()
\* orders the array it is called on before slice() copies from it.
getCompletedWorkflows ==
  /\ completedWorkflows' = SortLatestFirst(completedWorkflows)
  /\ last' = Event("list", 0, 0, TRUE, "")
  /\ UNCHANGED <<activeWorkflows, wf, pc, now>>

HistoryCap == 100

\* cleanupOldWorkflows (lines 222-229).  Nothing in the repository calls it.
cleanupOldWorkflows(completed) ==
  IF Len(completed) > HistoryCap
  THEN SubSeq(SortLatestFirst(completed), 1, HistoryCap)
  ELSE completed

\* getWorkflowStatus (lines 200-210): the record's id, or 0 for null.
getWorkflowStatus(workflowId) ==
  IF workflowId \in activeWorkflows THEN workflowId
  ELSE IF \E i \in 1..Len(completedWorkflows) : completedWorkflows[i] = workflowId
       THEN workflowId
       ELSE 0

\* Math.round(a / b) for a >= 0 and b > 0: the nearest integer, a half going
\* up.  With a = 100 * successful.length and b = completed.length the double
\* product of line 255 rounds as the exact quotient does for every history
\* shorter than 40 records (23 of 40 gives 57.49999999999999).
MathRoundDiv(a, b) == (2 * a + b) \div (2 * b)

\* The records of the history with the given status, in history order
\* (Array.prototype.filter, lines 240-241).
WithStatus(completed, status) ==
  SelectSeq(completed, LAMBDA w : wf[w].status = status)

\* The reduce of lines 243-245.
RECURSIVE TotalDuration(_)
TotalDuration(successful) ==
  IF successful = <<>> THEN 0
  ELSE TotalDuration(Tail(successful))
         + (EndTimeOr0(Head(successful)) - wf[Head(successful)].startTime)

\* A getWorkflowMetrics whose completedCount is the length of the history.
getWorkflowMetrics_CountsAll ==
  LET completed == completedWorkflows
      failed == WithStatus(completed, "failed")
      successful == WithStatus(completed, "completed")
  IN [activeCount |-> Cardinality(activeWorkflows),
      completedCount |-> Len(completed),
      failedCount |-> Len(failed),
      averageDuration |->
        IF Len(successful) > 0
        THEN MathRoundDiv(TotalDuration(successful), Len(successful))
        ELSE 0,
      successRate |->
        IF Len(completed) > 0
        THEN MathRoundDiv(100 * Len(successful), Len(completed))
        ELSE 0]

\* getWorkflowMetrics (lines 231-257), called by GET /api/workflows.
\* averageDuration is in clock ticks, successRate in hundredths (the value
\* returned is successRate / 100).
getWorkflowMetrics ==
  LET completed == completedWorkflows
      failed == WithStatus(completed, "failed")
      successful == WithStatus(completed, "completed")
  IN [activeCount |-> Cardinality(activeWorkflows),
      completedCount |-> Len(successful),
      failedCount |-> Len(failed),
      averageDuration |->
        IF Len(successful) > 0
        THEN MathRoundDiv(TotalDuration(successful), Len(successful))
        ELSE 0,
      successRate |->
        IF Len(completed) > 0
        THEN MathRoundDiv(100 * Len(successful), Len(completed))
        ELSE 0]

\* Time passes between two handlers.
Tick ==
  /\ now < MaxTime
  /\ now' = now + 1
  /\ UNCHANGED <<activeWorkflows, completedWorkflows, wf, pc, last>>

(***************************************************************************)
(* marketCorrelator.ts, in full.  Numbers are integers in fixed units:     *)
(* confidence in hundredths, percentChange24h in hundredths of a percent,  *)
(* sentimentMarketCorrelation in hundred-thousandths; scores are the       *)
(* integers the lexicon of localSentiment.ts adds up.  The sums and        *)
(* comparisons are exact, where the program's are in doubles.              *)
(***************************************************************************)
HistoryLimit == 100    \* entries kept per symbol (lines 63 and 94)
WindowSize == 10       \* entries a coefficient is computed over (lines 154, 160, 161)
CoefficientOne == 100000     \* the coefficient 1

Abs(x) == IF x < 0 THEN 0 - x ELSE x
Min(x, y) == IF x < y THEN x ELSE y
Max(x, y) == IF x > y THEN x ELSE y

\* map.get(symbol) || []
HistoryOf(map, symbol) == IF symbol \in DOMAIN map THEN map[symbol] ELSE <<>>

\* A push that never evicts.
Push_NoShift(map, symbol, entry) ==
  [s \in DOMAIN map \cup {symbol} |->
     IF s = symbol THEN Append(HistoryOf(map, symbol), entry) ELSE map[s]]

\* history.push(entry), then history.shift() when more than 100 are held
\* (lines 56-65 and 88-96).
Push(map, symbol, entry) ==
  LET history == Append(HistoryOf(map, symbol), entry)
      kept == IF Len(history) > HistoryLimit THEN Tail(history) ELSE history
  IN [s \in DOMAIN map \cup {symbol} |-> IF s = symbol THEN kept ELSE map[s]]

\* A getPriceDirection for which a change of exactly 2% is up.
getPriceDirection_AtLeast(percentChange) ==
  IF percentChange >= 200 THEN "up"
  ELSE IF percentChange < -200 THEN "down"
  ELSE "sideways"

\* getPriceDirection (lines 128-132).
getPriceDirection(percentChange) ==
  IF percentChange > 200 THEN "up"
  ELSE IF percentChange < -200 THEN "down"
  ELSE "sideways"

\* calculateAlignment (lines 134-148).
calculateAlignment(sentiment, priceDirection) ==
  IF sentiment = "neutral" \/ priceDirection = "sideways" THEN "neutral"
  ELSE IF \/ sentiment = "positive" /\ priceDirection = "up"
          \/ sentiment = "negative" /\ priceDirection = "down"
       THEN "aligned"
       ELSE "divergent"

\* array.slice(-n)
SliceLast(s, n) == SubSeq(s, Max(1, Len(s) - n + 1), Len(s))

\* The loop of lines 163-168: the sum of score * percentChange24h / 100 over
\* the first n pairs, in ten-thousandths.
RECURSIVE SumProducts(_, _, _)
SumProducts(recentSentiments, recentPrices, n) ==
  IF n = 0 THEN 0
  ELSE SumProducts(recentSentiments, recentPrices, n - 1)
         + recentSentiments[n].score * recentPrices[n].percentChange24h

\* A coefficient without the clamp of line 170.
calculateCorrelationCoefficient_NoClamp(sentimentHist, priceHist) ==
  IF Len(sentimentHist) < WindowSize \/ Len(priceHist) < WindowSize
  THEN 0
  ELSE LET recentSentiments == SliceLast(sentimentHist, WindowSize)
           recentPrices == SliceLast(priceHist, WindowSize)
       IN SumProducts(recentSentiments, recentPrices,
                      Min(Len(recentSentiments), Len(recentPrices)))

\* calculateCorrelationCoefficient (lines 150-171), on the two histories of
\* the symbol.  The sum in ten-thousandths, divided by 10 (line 170), is the
\* same number of hundred-thousandths.
calculateCorrelationCoefficient(sentimentHist, priceHist) ==
  IF Len(sentimentHist) < WindowSize \/ Len(priceHist) < WindowSize
  THEN 0
  ELSE LET recentSentiments == SliceLast(sentimentHist, WindowSize)
           recentPrices == SliceLast(priceHist, WindowSize)
           correlation ==
             SumProducts(recentSentiments, recentPrices,
                         Min(Len(recentSentiments), Len(recentPrices)))
       IN Max(0 - CoefficientOne, Min(CoefficientOne, correlation))

\* A riskScore to which a divergent alignment adds 1.
RiskScore_DivergenceAddsOne(sentiment, market, correlation) ==
  LET alignment ==
        calculateAlignment(sentiment.sentiment,
                           getPriceDirection(market.percentChange24h))
  IN (IF sentiment.sentiment # "neutral" /\ sentiment.confidence < 40
      THEN 2 ELSE 0)
     + (IF Abs(market.percentChange24h) > 1000 THEN 2 ELSE 0)
     + (IF Abs(correlation) < 20000 THEN 1 ELSE 0)
     + (IF alignment = "divergent" THEN 1 ELSE 0)

\* The riskScore of lines 178-200.
RiskScore(sentiment, market, correlation) ==
  LET alignment ==
        calculateAlignment(sentiment.sentiment,
                           getPriceDirection(market.percentChange24h))
  IN (IF sentiment.sentiment # "neutral" /\ sentiment.confidence < 40
      THEN 2 ELSE 0)
     + (IF Abs(market.percentChange24h) > 1000 THEN 2 ELSE 0)
     + (IF Abs(correlation) < 20000 THEN 1 ELSE 0)
     + (IF alignment = "divergent" THEN 2 ELSE 0)

\* An assessRiskLevel for which a score of 3 is already high.
assessRiskLevel_HighAtThree(sentiment, market, correlation) ==
  LET riskScore == RiskScore(sentiment, market, correlation)
  IN IF riskScore >= 3 THEN "high"
     ELSE IF riskScore >= 2 THEN "medium"
     ELSE "low"

\* assessRiskLevel (lines 173-207).
assessRiskLevel(sentiment, market, correlation) ==
  LET riskScore == RiskScore(sentiment, market, correlation)
  IN IF riskScore >= 4 THEN "high"
     ELSE IF riskScore >= 2 THEN "medium"
     ELSE "low"

\* The CorrelationResult calculateCorrelation builds once it has the
\* coefficient (lines 98-103 and 107-125).  The recommendation text is left
\* out: no other field and no alert condition reads it.
ResultOf(sentiment, market, correlationCoeff) ==
  LET priceDirection == getPriceDirection(market.percentChange24h)
  IN [symbol |-> sentiment.symbol,
      sentimentMarketCorrelation |-> correlationCoeff,
      priceDirection |-> priceDirection,
      sentimentDirection |-> sentiment.sentiment,
      alignment |-> calculateAlignment(sentiment.sentiment, priceDirection),
      riskLevel |-> assessRiskLevel(sentiment, market, correlationCoeff),
      confidence |-> Min(sentiment.confidence, 90)]

\* What calculateCorrelation returns (lines 98-125), from the histories as
\* they are after its push.
CorrelationResult(sentiment, market, sentimentHist, priceHist) ==
  ResultOf(sentiment, market,
           calculateCorrelationCoefficient(sentimentHist, priceHist))

Alert(type, symbol, severity) ==
  [type |-> type, symbol |-> symbol, severity |-> severity]

\* Alerts with an opportunity for every aligned, confident result, whatever
\* its risk.
AlertsOf_OpportunityAtAnyRisk(correlation) ==
  (IF correlation.riskLevel = "high"
   THEN <<Alert("risk_warning", correlation.symbol, "high")>> ELSE <<>>)
  \o (IF correlation.alignment = "divergent" /\ correlation.confidence > 60
      THEN <<Alert("sentiment_divergence", correlation.symbol, "medium")>>
      ELSE <<>>)
  \o (IF correlation.alignment = "aligned" /\ correlation.confidence > 70
      THEN <<Alert("opportunity", correlation.symbol, "low")>> ELSE <<>>)

\* The alerts of one result, in the order pushed (lines 243-277).
AlertsOf(correlation) ==
  (IF correlation.riskLevel = "high"
   THEN <<Alert("risk_warning", correlation.symbol, "high")>> ELSE <<>>)
  \o (IF correlation.alignment = "divergent" /\ correlation.confidence > 60
      THEN <<Alert("sentiment_divergence", correlation.symbol, "medium")>>
      ELSE <<>>)
  \o (IF /\ correlation.alignment = "aligned"
         /\ correlation.riskLevel = "low"
         /\ correlation.confidence > 70
      THEN <<Alert("opportunity", correlation.symbol, "low")>> ELSE <<>>)

\* generateMarketAlerts (lines 238-281).
RECURSIVE generateMarketAlerts(_)
generateMarketAlerts(correlations) ==
  IF correlations = <<>> THEN <<>>
  ELSE AlertsOf(Head(correlations)) \o generateMarketAlerts(Tail(correlations))

\* The sentiment items of the model and the lists POST /api/process/correlate
\* is called with.
Item(symbol, sentiment, confidence, score) ==
  [symbol |-> symbol, sentiment |-> sentiment, confidence |-> confidence,
   score |-> score]

Positive == Item("BTC", "positive", 80, 30)
Negative == Item("BTC", "negative", 30, -30)
Other == Item("ETH", "neutral", 50, 0)

Warm == [i \in 1..(WindowSize - 1) |-> Positive]
Batches == {<<Positive>>, <<Negative>>, <<Positive, Other, Negative>>}

\* What a call of fetchMarketData does: it returns a snapshot whose 24h
\* change is within the +-5% of line 44 (+4% here; the private methods are
\* applied to changes of every size and sign under SpecPure), or (a network
\* call in production, line 42) it throws.
PercentChanges == {400}
Outcomes ==
  {[threw |-> FALSE, percentChange24h |-> p] : p \in PercentChanges}
    \cup {[threw |-> TRUE, percentChange24h |-> 0]}
Steady == [threw |-> FALSE, percentChange24h |-> 400]

\* A call of correlateWithSentiment: its argument, the index i of the item of
\* the loop, where it is suspended (at), the snapshot fetched for item i, the
\* result computed for it, and the results pushed.  `skipped` (the items whose
\* iteration threw) is kept for the properties only, and so is the field `by`
\* of history entries and results: the call and the iteration that made them.
NewCall(sentimentData) ==
  [sentimentData |-> sentimentData, i |-> 1, at |-> "fetch", market |-> {},
   correlation |-> {}, results |-> <<>>, skipped |-> {}]

\* The sentiment item as an entry of the history.
Entry(sentiment, by) ==
  [symbol |-> sentiment.symbol, sentiment |-> sentiment.sentiment,
   confidence |-> sentiment.confidence, score |-> sentiment.score, by |-> by]

Did(op, call, item, result) ==
  [op |-> op, call |-> call, item |-> item, result |-> result]

InitCorrelator ==
  /\ priceHistory = <<>>
  /\ sentimentHistory = <<>>
  /\ calls = <<>>
  /\ seen = Did("none", 0, 0, {})

\* The top of the loop body for item task.i (line 75), or the return of line
\* 83 when the list is exhausted: fetchMarketData runs to its end, history
\* push included, before the call is suspended at the await.
BeginItem(prices, task, c, o) ==
  IF task.i > Len(task.sentimentData)
  THEN [prices |-> prices, task |-> [task EXCEPT !.at = "done"]]
  ELSE IF o.threw
       THEN [prices |-> prices,
             task |-> [task EXCEPT !.at = "fetch", !.market = {}]]
       ELSE LET symbol == task.sentimentData[task.i].symbol
                marketData == [symbol |-> symbol,
                               percentChange24h |-> o.percentChange24h,
                               by |-> <<c, task.i>>]
            IN [prices |-> Push(prices, symbol, marketData),
                task |-> [task EXCEPT !.at = "fetch", !.market = {marketData}]]

\* A catch clause that rethrows: the call is rejected.
Caught_Rethrows(task) == [task EXCEPT !.at = "rejected"]

\* The catch clause of lines 79-81: the item is given up, the loop goes on.
Caught(task) ==
  [task EXCEPT !.i = task.i + 1, !.skipped = task.skipped \cup {task.i}]

\* POST /api/process/correlate, or the executor of step_3, calls
\* correlateWithSentiment (lines 70-75): the call runs up to its first await.
CorrelateCalled(sentimentData, o) ==
  LET c == Len(calls) + 1
      begun == BeginItem(priceHistory, NewCall(sentimentData), c, o)
  IN /\ priceHistory' = begun.prices
     /\ calls' = Append(calls, begun.task)
     /\ seen' = Did("called", c, 0, {})
     /\ UNCHANGED sentimentHistory

\* The await of fetchMarketData settles (line 75).  Fulfilled: the call of
\* calculateCorrelation runs to its end (line 76, lines 86-126).  Rejected:
\* the catch clause, then the next item or the return (a call that is
\* rejected goes no further).
FetchSettles(c, o) ==
  /\ c \in DOMAIN calls
  /\ calls[c].at = "fetch"
  /\ IF calls[c].market = {}
     THEN LET task == Caught(calls[c])
              begun == IF task.at = "rejected"
                       THEN [prices |-> priceHistory, task |-> task]
                       ELSE BeginItem(priceHistory, task, c, o)
          IN /\ priceHistory' = begun.prices
             /\ calls' = [calls EXCEPT ![c] = begun.task]
             /\ seen' = Did("caught", c, calls[c].i, {})
             /\ UNCHANGED sentimentHistory
     ELSE LET sentiment == calls[c].sentimentData[calls[c].i]
              market == The(calls[c].market)
              pushed == Push(sentimentHistory, sentiment.symbol,
                             Entry(sentiment, <<c, calls[c].i>>))
              correlation ==
                CorrelationResult(sentiment, market,
                                  HistoryOf(pushed, sentiment.symbol),
                                  HistoryOf(priceHistory, sentiment.symbol))
          IN /\ sentimentHistory' = pushed
             /\ calls' = [calls EXCEPT ![c].at = "calc",
                                       ![c].correlation = {correlation}]
             /\ seen' = Did("calc", c, calls[c].i, {correlation})
             /\ UNCHANGED priceHistory

\* The await of calculateCorrelation settles (line 76): results.push (line
\* 77), then the next item or the return.
CorrelationSettles(c, o) ==
  /\ c \in DOMAIN calls
  /\ calls[c].at = "calc"
  /\ LET task == [calls[c] EXCEPT
                    !.results = Append(calls[c].results,
                                       [correlation |-> The(calls[c].correlation),
                                        by |-> <<c, calls[c].i>>]),
                    !.correlation = {},
                    !.i = calls[c].i + 1]
         begun == BeginItem(priceHistory, task, c, o)
     IN /\ priceHistory' = begun.prices
        /\ calls' = [calls EXCEPT ![c] = begun.task]
        /\ seen' = Did("pushed", c, calls[c].i, {})
        /\ UNCHANGED sentimentHistory

\* The state after construction of the manager and of the correlator.
Init == InitManager /\ InitCorrelator /\ probe = <<>>

Next ==
  \/ \E cryptoSymbol \in Symbols :
       /\ Cardinality(DOMAIN wf) < MaxWorkflows
       /\ startSentimentAnalysisWorkflow(cryptoSymbol)
       /\ UNCHANGED <<correlatorVars, probe>>
  \/ \E w \in DOMAIN wf :
       StepReturns(w) /\ UNCHANGED <<correlatorVars, probe>>
  \/ \E w \in DOMAIN wf : \E error \in Errors :
       StepThrows(w, error) /\ UNCHANGED <<correlatorVars, probe>>
  \/ \E workflowId \in 1..MaxWorkflows :
       cancelWorkflow(workflowId) /\ UNCHANGED <<correlatorVars, probe>>
  \/ getCompletedWorkflows /\ UNCHANGED <<correlatorVars, probe>>
  \/ Tick /\ UNCHANGED <<correlatorVars, probe>>

Spec == Init /\ [][Next]_vars

\* What the return or the throw of the stage call that w has in flight does
\* to the position of w's task: executeWorkflow goes on to the next step
\* (StepReturns), or comes to its end (StepReturns of the last step,
\* StepThrows).  No other step of Next changes pc[w].
StageSettles(w) ==
  /\ InFlight(w)
  /\ \E p \in {StepIds[k] : k \in 2..3} \cup {"done"} :
       /\ p = "done" \/ StepAt(p) = StepAt(pc[w]) + 1
       /\ pc' = [pc EXCEPT ![w] = p]

\* The requests and the returns and throws of Next, with the clock standing
\* (no step reads the clock except to stamp a record) and with workflows
\* started for no symbol as well.
NextFair ==
  \/ \E cryptoSymbol \in Symbols \cup {Undefined} :
       /\ Cardinality(DOMAIN wf) < MaxWorkflows
       /\ startSentimentAnalysisWorkflow(cryptoSymbol)
       /\ UNCHANGED <<correlatorVars, probe>>
  \/ \E w \in DOMAIN wf :
       StepReturns(w) /\ UNCHANGED <<correlatorVars, probe>>
  \/ \E w \in DOMAIN wf : \E error \in Errors :
       StepThrows(w, error) /\ UNCHANGED <<correlatorVars, probe>>
  \/ \E workflowId \in 1..MaxWorkflows :
       cancelWorkflow(workflowId) /\ UNCHANGED <<correlatorVars, probe>>
  \/ getCompletedWorkflows /\ UNCHANGED <<correlatorVars, probe>>

\* Every stage call settles: the promise a step awaits (line 172) is resolved
\* or rejected at some time, and the event loop then runs the continuation of
\* executeStep.
SpecFair ==
  Init /\ [][NextFair]_vars /\ \A w \in 1..MaxWorkflows : WF_pc(StageSettles(w))

\* Workflows run one after the other, each to its end, none cancelled and no
\* stage throwing: the schedule of a caller that starts a workflow when the
\* one before has completed.
NextSeq ==
  \/ /\ activeWorkflows = {}
     /\ Cardinality(DOMAIN wf) < SeqRuns
     /\ startSentimentAnalysisWorkflow("BTC")
     /\ UNCHANGED <<correlatorVars, probe>>
  \/ \E w \in activeWorkflows :
       StepReturns(w) /\ UNCHANGED <<correlatorVars, probe>>

SpecSeq == Init /\ [][NextSeq]_vars

\* Workflows run one after the other, each to its end or to the throw of one
\* of its stage calls, while time passes: the histories the metrics are
\* computed over.
NextRuns ==
  \/ /\ activeWorkflows = {}
     /\ Cardinality(DOMAIN wf) < MetricRuns
     /\ startSentimentAnalysisWorkflow("BTC")
     /\ UNCHANGED <<correlatorVars, probe>>
  \/ \E w \in activeWorkflows :
       StepReturns(w) /\ UNCHANGED <<correlatorVars, probe>>
  \/ \E w \in activeWorkflows : \E error \in Errors :
       StepThrows(w, error) /\ UNCHANGED <<correlatorVars, probe>>
  \/ Tick /\ UNCHANGED <<correlatorVars, probe>>

SpecRuns == Init /\ [][NextRuns]_vars

\* Calls of nine items made one after the other, each when the one before has
\* returned, no fetch throwing: more than 100 entries are appended to the
\* histories of one symbol.
NextCorrSeq ==
  \/ /\ \A c \in DOMAIN calls : calls[c].at = "done"
     /\ Len(calls) < SeqCalls
     /\ CorrelateCalled(Warm, Steady)
     /\ UNCHANGED <<managerVars, probe>>
  \/ \E c \in DOMAIN calls :
       FetchSettles(c, Steady) /\ UNCHANGED <<managerVars, probe>>
  \/ \E c \in DOMAIN calls :
       CorrelationSettles(c, Steady) /\ UNCHANGED <<managerVars, probe>>

SpecCorrSeq == Init /\ [][NextCorrSeq]_vars

\* The arguments the private methods are applied to under SpecPure:
\* sentiments of every label, confidences on both sides of 0.4, 0.6, 0.7 and
\* 0.9, changes on both sides of -10%, -2%, 2% and 10%, coefficients on both
\* sides of -0.2 and 0.2.
ProbeSentiments == {"positive", "negative", "neutral"}
ProbeConfidences == {39, 40, 60, 61, 70, 71, 80, 95}
ProbeChanges == {-1001, -1000, -201, -200, 0, 200, 201, 500, 1000, 1001}
ProbeCoefficients == {-100000, -20000, -19999, 0, 19999, 20000}

Probe(sentiment, confidence, percentChange24h, correlation) ==
  [sentiment |-> Item("BTC", sentiment, confidence, 0),
   market |-> [symbol |-> "BTC", percentChange24h |-> percentChange24h],
   correlation |-> correlation,
   out |-> {}]

Probes ==
  {Probe(s, f, p, r) : s \in ProbeSentiments, f \in ProbeConfidences,
                       p \in ProbeChanges, r \in ProbeCoefficients}

InitPure == InitManager /\ InitCorrelator /\ probe \in Probes

\* The private methods applied as calculateCorrelation applies them (lines
\* 98-125), then generateMarketAlerts on the one result, as POST
\* /api/process/correlate does.
Assess ==
  /\ probe.out = {}
  /\ LET priceDirection == getPriceDirection(probe.market.percentChange24h)
         result == ResultOf(probe.sentiment, probe.market, probe.correlation)
     IN probe' =
          [probe EXCEPT !.out =
             {[priceDirection |-> priceDirection,
               alignment |-> calculateAlignment(probe.sentiment.sentiment,
                                                priceDirection),
               riskLevel |-> assessRiskLevel(probe.sentiment, probe.market,
                                             probe.correlation),
               result |-> result,
               alerts |-> generateMarketAlerts(<<result>>)]}]
  /\ UNCHANGED <<managerVars, correlatorVars>>

NextPure == Assess

SpecPure == InitPure /\ [][NextPure]_vars

\* One call of harvestData (POST /api/process/harvest, or the first stage of a
\* workflow), for every symbol of HarvestSymbols and for no symbol.
HarvestProbes ==
  {[cryptoSymbol |-> c, out |-> {}] : c \in HarvestSymbols \cup {Undefined}}

InitHarvest == InitManager /\ InitCorrelator /\ probe \in HarvestProbes

Harvest ==
  /\ probe.out = {}
  /\ probe' = [probe EXCEPT !.out = {harvestData(probe.cryptoSymbol)}]
  /\ UNCHANGED <<managerVars, correlatorVars>>

NextHarvest == Harvest

SpecHarvest == InitHarvest /\ [][NextHarvest]_vars

(***************************************************************************)
(* localSentiment.ts                                                       *)
(***************************************************************************)
MaxWords == 3          \* words of a text under SpecSentiment

\* One word of a cleaned text, by what analyzeSentiment reads of it:
\*   cp, cn   some entry of cryptoPositiveWords / cryptoNegativeWords occurs in it
\*   gp, gn   it is an entry of generalPositiveWords / generalNegativeWords
\*   parts    which of buy, dip, hold, long, sell, crash occur in it
Word(cp, cn, gp, gn, parts) ==
  [cp |-> cp, cn |-> cn, gp |-> gp, gn |-> gn, parts |-> parts]

Vocabulary ==
  [moon     |-> Word(TRUE, FALSE, FALSE, FALSE, {}),
   dip      |-> Word(FALSE, TRUE, FALSE, FALSE, {"dip"}),
   crash    |-> Word(FALSE, TRUE, FALSE, FALSE, {"crash"}),
   pumpdump |-> Word(TRUE, TRUE, FALSE, FALSE, {}),
   good     |-> Word(FALSE, FALSE, TRUE, FALSE, {}),
   risk     |-> Word(FALSE, FALSE, FALSE, TRUE, {}),
   buy      |-> Word(FALSE, FALSE, FALSE, FALSE, {"buy"}),
   sell     |-> Word(FALSE, FALSE, FALSE, FALSE, {"sell"}),
   hold     |-> Word(FALSE, FALSE, FALSE, FALSE, {"hold"}),
   long     |-> Word(FALSE, FALSE, FALSE, FALSE, {"long"}),
   the      |-> Word(FALSE, FALSE, FALSE, FALSE, {})]

\* The empty string, which split yields for the empty text
EmptyWord == Word(FALSE, FALSE, FALSE, FALSE, {})

\* A text is the sequence of its words, joined by single spaces; <<>> is the
\* empty text.  ''.split(/\s+/) is [''], so words is never empty.
SplitWords(text) ==
  IF text = <<>> THEN <<EmptyWord>> ELSE [i \in DOMAIN text |-> Vocabulary[text[i]]]

RECURSIVE SumOf(_)
SumOf(numbers) ==
  IF numbers = <<>> THEN 0 ELSE Head(numbers) + SumOf(Tail(numbers))

\* The confidence line without Math.min(0.95, ...)
Confidence_NoMin(wordCount, length) ==
  LET density == 100 * wordCount + 30 * length
  IN IF density < 10 * length THEN 10 ELSE MathRoundDiv(density, length)

\* Math.round(Math.min(0.95, Math.max(0.1, wordCount / length + 0.3)) * 100),
\* the confidence in hundredths
Confidence(wordCount, length) ==
  LET density == 100 * wordCount + 30 * length
  IN IF density > 95 * length THEN 95
     ELSE IF density < 10 * length THEN 10
     ELSE MathRoundDiv(density, length)

\* analyzeSentiment; score and confidence are returned in hundredths
analyzeSentiment(text) ==
  LET words == SplitWords(text)
      Hits(word) == (IF word.cp THEN 1 ELSE 0) + (IF word.cn THEN 1 ELSE 0)
                    + (IF word.gp THEN 1 ELSE 0) + (IF word.gn THEN 1 ELSE 0)
      Points(word) == (IF word.cp THEN 2 ELSE 0) - (IF word.cn THEN 2 ELSE 0)
                      + (IF word.gp THEN 1 ELSE 0) - (IF word.gn THEN 1 ELSE 0)
      wordCount == SumOf([i \in DOMAIN words |-> Hits(words[i])])
      Includes(part) == \E i \in DOMAIN words : part \in words[i].parts
      contextBoost ==
        (IF Includes("buy") /\ Includes("dip") THEN 1 ELSE 0)
        + (IF Includes("hold") /\ Includes("long") THEN 1 ELSE 0)
        - (IF Includes("sell") /\ Includes("crash") THEN 1 ELSE 0)
      score == SumOf([i \in DOMAIN words |-> Points(words[i])]) + contextBoost
      sentiment == IF 2 * score > 1 THEN "positive"
                   ELSE IF 2 * score < -1 THEN "negative"
                   ELSE "neutral"
  IN [sentiment |-> sentiment,
      confidence |-> Confidence(wordCount, Len(words)),
      score |-> 100 * score]

RECURSIVE Texts(_)
Texts(n) ==
  IF n = 0 THEN {<<>>}
  ELSE Texts(n - 1) \cup {Append(t, w) : t \in {u \in Texts(n - 1) : Len(u) = n - 1},
                                          w \in DOMAIN Vocabulary}

\* One call of analyzeSentiment, for every text of at most MaxWords words.
SentimentProbes == {[text |-> t, out |-> {}] : t \in Texts(MaxWords)}

InitSentiment == InitManager /\ InitCorrelator /\ probe \in SentimentProbes

Analyze ==
  /\ probe.out = {}
  /\ probe' = [probe EXCEPT !.out = {analyzeSentiment(probe.text)}]
  /\ UNCHANGED <<managerVars, correlatorVars>>

NextSentiment == Analyze

SpecSentiment == InitSentiment /\ [][NextSentiment]_vars

(***************************************************************************)
(* batchProcess with items whose processing throws.                        *)
(***************************************************************************)
MaxBatch == 3          \* items of a batch under SpecBatch

\* The items of a batch: the first three samples, as the workflow passes them
BatchItems ==
  {[id |-> sampleData[i].id, content |-> sampleData[i].content,
    source |-> sampleData[i].source] : i \in 1..3}

RECURSIVE SeqsUpTo(_, _)
SeqsUpTo(S, n) ==
  IF n = 0 THEN {<<>>}
  ELSE SeqsUpTo(S, n - 1)
       \cup {Append(t, x) : t \in {u \in SeqsUpTo(S, n - 1) : Len(u) = n - 1},
                             x \in S}

\* One call of batchProcess, for every batch of at most MaxBatch items and
\* every choice of the items whose processing throws.
BatchProbes ==
  {[contents |-> [i \in DOMAIN b |-> b[i][1]],
    throws |-> [i \in DOMAIN b |-> b[i][2]],
    out |-> {}] : b \in SeqsUpTo(BatchItems \X BOOLEAN, MaxBatch)}

InitBatch == InitManager /\ InitCorrelator /\ probe \in BatchProbes

\* batchProcess returns processedResults (line 91); nothing in it throws
\* outside the try.
BatchProcessed ==
  /\ probe.out = {}
  /\ probe' = [probe EXCEPT !.out = {ProcessEach(probe.contents, probe.throws)}]
  /\ UNCHANGED <<managerVars, correlatorVars>>

NextBatch == BatchProcessed

SpecBatch == InitBatch /\ [][NextBatch]_vars

\* Calls of POST /api/process/correlate.  The first call, of nine items, runs
\* alone and none of its fetches throws; then calls are made with any list of
\* Batches, at most two in flight at a time, either going on when an await of
\* it has settled, each fetch returning or throwing.
NextCorr ==
  \/ /\ calls = <<>>
     /\ CorrelateCalled(Warm, Steady)
     /\ UNCHANGED <<managerVars, probe>>
  \/ \E sentimentData \in Batches : \E o \in Outcomes :
       /\ calls # <<>>
       /\ calls[1].at = "done"
       /\ \A c \in 1..(Len(calls) - 1) : calls[c].at = "done"
       /\ Len(calls) < MaxCalls
       /\ CorrelateCalled(sentimentData, o)
       /\ UNCHANGED <<managerVars, probe>>
  \/ \E c \in DOMAIN calls : \E o \in Outcomes :
       /\ c = 1 => o = Steady
       /\ FetchSettles(c, o)
       /\ UNCHANGED <<managerVars, probe>>
  \/ \E c \in DOMAIN calls : \E o \in Outcomes :
       /\ c = 1 => o = Steady
       /\ CorrelationSettles(c, o)
       /\ UNCHANGED <<managerVars, probe>>

SpecCorr == Init /\ [][NextCorr]_vars

(***************************************************************************)
(* The claims.                                                             *)
(***************************************************************************)

\* The step that has just been taken is the handler or continuation `op`.
Ran(op) == last' # last /\ last'.op = op

StatusStep(a, b) ==
  \/ a = b
  \/ a = "pending" /\ b = "running"
  \/ a = "running" /\ b \in {"completed", "failed"}

\* C1: a workflow record's status changes only along pending -> running ->
\* (completed | failed); once completed or failed it never changes again.
C1_StatusOnlyForward ==
  [][\A w \in DOMAIN wf : StatusStep(wf[w].status, wf'[w].status)]_vars

\* cancelWorkflow is the only writer of CancelMsg, and nothing clears the field.
Cancelled(w) == wf[w].error = {CancelMsg}

\* C2: after cancel(workflowId) has succeeded, no step of that workflow that is
\* still pending is ever started.
C2_NoStepStartsAfterCancel ==
  [][\A w \in DOMAIN wf : \A k \in 1..3 :
       (Cancelled(w) /\ wf[w].steps[k].status = "pending")
         => wf'[w].steps[k].status = "pending"]_vars

\* C3: the completed history holds at most 100 records.
C3_HistoryBounded == Len(completedWorkflows) <= HistoryCap

\* C4: a step has left pending only if every earlier step is completed, and at
\* most one step of a workflow is running.
C4_StepsInOrder ==
  \A w \in DOMAIN wf :
    /\ \A k \in 1..3 :
         wf[w].steps[k].status # "pending"
           => \A j \in 1..(k - 1) : wf[w].steps[j].status = "completed"
    /\ Cardinality({k \in 1..3 : wf[w].steps[k].status = "running"}) <= 1

C4_Witness ==
  \E w \in DOMAIN wf :
    /\ wf[w].steps[1].status = "completed"
    /\ wf[w].steps[2].status = "completed"
    /\ wf[w].steps[3].status = "running"

\* C5, as claimed: when the executor of step k throws, step k becomes failed
\* with the error message, the workflow becomes failed with the same message
\* and moves to the history, and every later step stays pending.
C5_ThrowFailsWorkflowWithSameError ==
  [][Ran("throw") =>
       LET w == last'.id
           k == last'.step
           e == last'.error
       IN /\ wf'[w].steps[k].status = "failed"
          /\ wf'[w].steps[k].error = {e}
          /\ wf'[w].status = "failed"
          /\ wf'[w].error = {e}
          /\ w \notin activeWorkflows'
          /\ completedWorkflows' = Append(completedWorkflows, w)
          /\ \A j \in (k + 1)..3 : wf'[w].steps[j].status = "pending"]_vars

\* C5, amended: when the executor of step k throws, step k becomes failed with
\* the error message, the task ends and every later step stays pending for
\* ever.  A workflow that is still active becomes failed with the same message
\* and moves to the history; a workflow that was cancelled before stays failed
\* with the error 'Cancelled by user' and is not added to the history again.
C5_ThrowFailsStepAndActiveWorkflow ==
  [][/\ Ran("throw") =>
          LET w == last'.id
              k == last'.step
              e == last'.error
          IN /\ wf'[w].steps[k].status = "failed"
             /\ wf'[w].steps[k].error = {e}
             /\ wf'[w].status = "failed"
             /\ pc'[w] = "done"
             /\ \A j \in (k + 1)..3 : wf'[w].steps[j].status = "pending"
             /\ w \notin activeWorkflows'
             /\ IF w \in activeWorkflows
                THEN /\ wf'[w].error = {e}
                     /\ completedWorkflows' = Append(completedWorkflows, w)
                ELSE /\ wf'[w].error = {CancelMsg}
                     /\ completedWorkflows' = completedWorkflows
     /\ \A w \in DOMAIN wf : \A k \in 1..3 :
          wf[w].steps[k].status = "failed"
            => /\ wf'[w].steps[k].status = "failed"
               /\ \A j \in (k + 1)..3 : wf'[w].steps[j].status = "pending"]_vars

C5_Witness ==
  /\ last.op = "throw"
  /\ last.step = 2
  /\ wf[last.id].steps[2].status = "failed"
  /\ wf[last.id].steps[2].error = {last.error}
  /\ wf[last.id].status = "failed"
  /\ wf[last.id].error = {last.error}
  /\ wf[last.id].steps[3].status = "pending"

\* C6: cancel of a workflow that is active and running returns true, sets the
\* status failed with error 'Cancelled by user', sets the end time, removes the
\* record from the active set and appends it to the history; a record that has
\* left the active set is never in it again.
C6_CancelRunning ==
  [][/\ (Ran("cancel") /\ last'.id \in activeWorkflows
           /\ wf[last'.id].status = "running") =>
          LET w == last'.id
          IN /\ last'.value = TRUE
             /\ wf'[w].status = "failed"
             /\ wf'[w].error = {CancelMsg}
             /\ wf'[w].endTime = {now}
             /\ activeWorkflows' = activeWorkflows \ {w}
             /\ completedWorkflows' = Append(completedWorkflows, w)
     /\ \A w \in DOMAIN wf :
          w \notin activeWorkflows => w \notin activeWorkflows']_vars

C6_Witness ==
  /\ last.op = "cancel"
  /\ last.value = TRUE
  /\ last.id \notin activeWorkflows
  /\ wf[last.id].status = "failed"
  /\ wf[last.id].error = {CancelMsg}
  /\ completedWorkflows # <<>>
  /\ completedWorkflows[Len(completedWorkflows)] = last.id

\* C7: cancel of a workflow that is completed, failed or unknown returns false
\* and leaves the active set, the history and every record unchanged.
C7_CancelNotCancellable ==
  [][(/\ Ran("cancel")
      /\ \/ last'.id \notin DOMAIN wf
         \/ wf[last'.id].status \in {"completed", "failed"})
       => /\ last'.value = FALSE
          /\ UNCHANGED <<activeWorkflows, completedWorkflows, wf>>]_vars

C7_Witness ==
  /\ last.op = "cancel"
  /\ last.value = FALSE
  /\ last.id \in DOMAIN wf
  /\ wf[last.id].status = "completed"

\* C8: when the third step returns and the workflow was not cancelled, in that
\* one step the workflow becomes completed, its end time is set, its result is
\* the three outputs stored on step_1, step_2 and step_3, and the record leaves
\* the active set and is appended to the history.
C8_FullSuccess ==
  [][(Ran("return") /\ last'.step = 3 /\ ~Cancelled(last'.id)) =>
       LET w == last'.id
       IN /\ \A k \in 1..3 : wf'[w].steps[k].status = "completed"
          /\ wf[w].status = "running"
          /\ wf'[w].status = "completed"
          /\ wf'[w].endTime = {now}
          /\ wf'[w].data.result =
               {[harvestedData |-> The(wf'[w].steps[1].output),
                 processedData |-> The(wf'[w].steps[2].output),
                 correlationData |-> The(wf'[w].steps[3].output)]}
          /\ w \in activeWorkflows
          /\ activeWorkflows' = activeWorkflows \ {w}
          /\ completedWorkflows' = Append(completedWorkflows, w)]_vars

C8_Witness ==
  /\ last.op = "return"
  /\ last.step = 3
  /\ wf[last.id].status = "completed"
  /\ wf[last.id].error = {}
  /\ wf[last.id].data.result # {}
  /\ Len(The(wf[last.id].data.result).harvestedData) = 2
  /\ Len(The(wf[last.id].data.result).correlationData) = 2

\* C9: if the harvest for a workflow yields zero retained items, the harvest
\* step is failed and the workflow is failed, and the NLP and correlation steps
\* are never run.
C9_EmptyHarvestFails ==
  \A w \in DOMAIN wf :
    (pc[w] # "step_1" /\ harvestData(wf[w].data.cryptoSymbol) = <<>>)
      => /\ wf[w].steps[1].status = "failed"
         /\ wf[w].status = "failed"
         /\ wf[w].steps[2].status = "pending"
         /\ wf[w].steps[3].status = "pending"

\* C10: when start returns, the record is in the active set and retrievable by
\* status(), it has exactly the three steps harvest, NLP processing and
\* correlation in that order, it has not ended, and no step has reached
\* completed or failed: the stage call of step_1 is still in flight.
C10_StartReturnsBeforeExecution ==
  last.op = "start" =>
    LET w == last.id
    IN /\ w \in activeWorkflows
       /\ getWorkflowStatus(w) = w
       /\ wf[w].workflowId = w
       /\ wf[w].status \in {"pending", "running"}
       /\ wf[w].endTime = {}
       /\ wf[w].data.result = {}
       /\ DOMAIN wf[w].steps = 1..3
       /\ [k \in 1..3 |-> wf[w].steps[k].agent]
            = <<"data_harvester", "nlp_processor", "market_correlator">>
       /\ [k \in 1..3 |-> wf[w].steps[k].id] = <<"step_1", "step_2", "step_3">>
       /\ \A k \in 1..3 : /\ wf[w].steps[k].status \in {"pending", "running"}
                          /\ wf[w].steps[k].output = {}
                          /\ wf[w].steps[k].endTime = {}
       /\ \A k \in 2..3 : wf[w].steps[k].status = "pending"
       /\ pc[w] = "step_1"

C10_Witness ==
  /\ last.op = "start"
  /\ last.id = 1
  /\ last.id \in activeWorkflows
  /\ wf[last.id].data.cryptoSymbol = "BTC"

Terminal(status) == status \in {"completed", "failed"}

\* C11: a workflow record has its end time set exactly when its status is
\* completed or failed, and each step has its end time set exactly when the
\* step's status is completed or failed.
C11_EndTimeIffTerminal ==
  \A w \in DOMAIN wf :
    /\ (wf[w].endTime # {}) <=> Terminal(wf[w].status)
    /\ \A k \in 1..3 :
         (wf[w].steps[k].endTime # {}) <=> Terminal(wf[w].steps[k].status)

\* A cancelled workflow (ended) whose step in flight has no end time yet, and
\* whose first step has ended.
C11_Witness ==
  \E w \in DOMAIN wf :
    /\ wf[w].status = "failed" /\ wf[w].endTime # {}
    /\ wf[w].steps[1].status = "completed" /\ wf[w].steps[1].endTime # {}
    /\ wf[w].steps[2].status = "running" /\ wf[w].steps[2].endTime = {}
    /\ wf[w].steps[3].status = "pending" /\ wf[w].steps[3].endTime = {}

\* The number of history records with the given status.
HistoryCount(status) ==
  Cardinality({i \in 1..Len(completedWorkflows) :
                 wf[completedWorkflows[i]].status = status})

\* C12 as stated: metrics() returns the size of the active set, the numbers of
\* completed and failed history records, successRate = completedCount /
\* (completedCount + failedCount), 0 and 0 for an empty history, and
\* averageDuration 0 when no history record is completed.
C12_MetricsExactRate ==
  LET m == getWorkflowMetrics
      c == HistoryCount("completed")
      f == HistoryCount("failed")
  IN /\ m.activeCount = Cardinality(activeWorkflows)
     /\ m.completedCount = c
     /\ m.failedCount = f
     /\ c + f > 0 => m.successRate * (c + f) = 100 * c
     /\ completedWorkflows = <<>> => m.successRate = 0 /\ m.averageDuration = 0
     /\ c = 0 => m.averageDuration = 0

\* C12, amended: the same, with successRate the quotient rounded to two
\* decimals (the hundredth nearest to completedCount / (completedCount +
\* failedCount)).
C12_MetricsRoundedRate ==
  LET m == getWorkflowMetrics
      c == HistoryCount("completed")
      f == HistoryCount("failed")
      diff == m.successRate * (c + f) - 100 * c
  IN /\ m.activeCount = Cardinality(activeWorkflows)
     /\ m.completedCount = c
     /\ m.failedCount = f
     /\ c + f > 0 => 2 * diff <= c + f /\ 2 * diff >= 0 - (c + f)
     /\ m.successRate \in 0..100
     /\ completedWorkflows = <<>> => m.successRate = 0 /\ m.averageDuration = 0
     /\ c = 0 => m.averageDuration = 0

\* One completed and two failed records in the history and no workflow
\* active: the rate returned is 0.33.
C12_Witness ==
  /\ HistoryCount("completed") = 1
  /\ HistoryCount("failed") = 2
  /\ getWorkflowMetrics.successRate = 33
  /\ getWorkflowMetrics.activeCount = 0

\* C13: when step k fails, every earlier step is completed and keeps its
\* record, output included; the workflow record is failed and status() returns
\* it.  An output, once stored, is never changed, and a record status()
\* returns stays retrievable.
C13_FailureKeepsEarlierOutputs ==
  [][/\ \A w \in DOMAIN wf : \A k \in 1..3 :
          (Ran("throw") /\ last'.id = w /\ last'.step = k) =>
             /\ \A j \in 1..(k - 1) :
                  /\ wf[w].steps[j].status = "completed"
                  /\ wf[w].steps[j].output # {}
                  /\ wf'[w].steps[j] = wf[w].steps[j]
             /\ wf'[w].steps[k].status = "failed"
             /\ wf'[w].status = "failed"
             /\ getWorkflowStatus(w)' = w
     /\ \A w \in DOMAIN wf :
          /\ \A j \in 1..3 :
               wf[w].steps[j].output # {}
                 => wf'[w].steps[j].output = wf[w].steps[j].output
          /\ getWorkflowStatus(w) = w => getWorkflowStatus(w)' = w]_vars

\* Step 3 has just failed: the workflow is failed, in the history and not
\* active, and steps 1 and 2 hold their outputs.
C13_Witness ==
  /\ last.op = "throw" /\ last.step = 3
  /\ wf[last.id].status = "failed"
  /\ wf[last.id].steps[3].status = "failed"
  /\ wf[last.id].steps[1].output = {harvestData(wf[last.id].data.cryptoSymbol)}
  /\ wf[last.id].steps[1].output # {<<>>}
  /\ wf[last.id].steps[2].output # {}
  /\ last.id \notin activeWorkflows
  /\ getWorkflowStatus(last.id) = last.id

\* C14: whenever a coefficient is computed for a symbol, the 10 sentiment
\* samples and the 10 price snapshots multiplied pairwise are aligned: the
\* i-th of each was recorded by the same iteration of the same call.
C14_WindowsAligned ==
  seen.op = "calc" =>
    LET symbol == The(seen.result).symbol
        sentimentHist == HistoryOf(sentimentHistory, symbol)
        priceHist == HistoryOf(priceHistory, symbol)
    IN (Len(sentimentHist) >= WindowSize /\ Len(priceHist) >= WindowSize)
         => \A i \in 1..WindowSize :
              SliceLast(sentimentHist, WindowSize)[i].by
                = SliceLast(priceHist, WindowSize)[i].by

\* C15: a call of correlateWithSentiment is never rejected; an item whose
\* iteration threw has no result, and every other item the loop has passed
\* has exactly one result, the results being in input order.  A call returns
\* only when the loop has passed every item.
C15_OneResultPerItemThatDidNotThrow ==
  \A c \in DOMAIN calls :
    LET task == calls[c]
        passed == 1..(task.i - 1)
    IN /\ task.at # "rejected"
       /\ task.at = "done" => task.i = Len(task.sentimentData) + 1
       /\ task.skipped \subseteq passed
       /\ \A r \in 1..Len(task.results) :
            /\ task.results[r].by[1] = c
            /\ task.results[r].by[2] \in passed \ task.skipped
            /\ task.results[r].correlation.symbol
                 = task.sentimentData[task.results[r].by[2]].symbol
            /\ r > 1 => task.results[r - 1].by[2] < task.results[r].by[2]
       /\ \A i \in passed \ task.skipped :
            \E r \in 1..Len(task.results) : task.results[r].by[2] = i

\* A call of three items has returned two results, for its first and its
\* third item: the fetch for the second threw.
C15_Witness ==
  \E c \in DOMAIN calls :
    /\ calls[c].at = "done"
    /\ Len(calls[c].sentimentData) = 3
    /\ calls[c].skipped = {2}
    /\ Len(calls[c].results) = 2
    /\ calls[c].results[1].by = <<c, 1>>
    /\ calls[c].results[2].by = <<c, 3>>

\* Between two states the history of a symbol is unchanged, or it has one
\* entry more at its end, having lost its oldest entry if it held 100.
AppendsEvictingOldest(before, after) ==
  /\ DOMAIN before \subseteq DOMAIN after
  /\ \A s \in DOMAIN after :
       LET old == HistoryOf(before, s)
           new == after[s]
       IN \/ new = old
          \/ /\ new # <<>>
             /\ \/ Len(old) < HistoryLimit /\ new = Append(old, new[Len(new)])
                \/ Len(old) = HistoryLimit
                     /\ new = Append(Tail(old), new[Len(new)])

\* C16: for every symbol the price history and the sentiment history hold at
\* most 100 entries each, the most recently appended ones in the order
\* appended: an append evicts the oldest entry and nothing else changes or
\* resets a history, from one call to the next either.
C16_HistoriesKeepLast100 ==
  /\ [](/\ \A s \in DOMAIN priceHistory : Len(priceHistory[s]) <= HistoryLimit
        /\ \A s \in DOMAIN sentimentHistory :
             Len(sentimentHistory[s]) <= HistoryLimit)
  /\ [][/\ AppendsEvictingOldest(priceHistory, priceHistory')
        /\ AppendsEvictingOldest(sentimentHistory, sentimentHistory')]_vars

\* 108 entries have been appended to each history of BTC by twelve calls: each
\* holds 100, from the ninth entry of the first call to the last entry of the
\* twelfth.
C16_Witness ==
  /\ Len(calls) >= 12
  /\ calls[12].at = "done"
  /\ Len(priceHistory["BTC"]) = HistoryLimit
  /\ Len(sentimentHistory["BTC"]) = HistoryLimit
  /\ priceHistory["BTC"][1].by = <<1, 9>>
  /\ sentimentHistory["BTC"][1].by = <<1, 9>>
  /\ priceHistory["BTC"][HistoryLimit].by = <<12, 9>>
  /\ sentimentHistory["BTC"][HistoryLimit].by = <<12, 9>>

\* C17: a coefficient computed while the sentiment history or the price
\* history of the symbol holds fewer than 10 entries is 0; any other
\* coefficient lies in [-1, 1].
C17_CoefficientZeroOrClamped ==
  seen.op = "calc" =>
    LET correlation == The(seen.result)
        sentimentHist == HistoryOf(sentimentHistory, correlation.symbol)
        priceHist == HistoryOf(priceHistory, correlation.symbol)
    IN /\ (Len(sentimentHist) < WindowSize \/ Len(priceHist) < WindowSize)
            => correlation.sentimentMarketCorrelation = 0
       /\ correlation.sentimentMarketCorrelation >= 0 - CoefficientOne
       /\ correlation.sentimentMarketCorrelation <= CoefficientOne

\* A coefficient strictly between 0 and 1 has just been computed over ten
\* entries of each history, the tenth sentiment negative.
C17_Witness ==
  /\ seen.op = "calc"
  /\ Len(HistoryOf(sentimentHistory, "BTC")) = WindowSize
  /\ Len(HistoryOf(priceHistory, "BTC")) = WindowSize
  /\ The(seen.result).symbol = "BTC"
  /\ The(seen.result).sentimentDirection = "negative"
  /\ The(seen.result).sentimentMarketCorrelation > 0
  /\ The(seen.result).sentimentMarketCorrelation < CoefficientOne

\* C18: for a result, the alerts hold a risk_warning iff its risk is high, a
\* sentiment_divergence iff it is divergent with confidence above 0.6, an
\* opportunity iff it is aligned with low risk and confidence above 0.7, each
\* at most once and no alert of another type; they are the same next to the
\* alerts of another result of the list.  The result for a positive
\* sentiment of confidence 0.8 and a change of +5% is aligned, and has an
\* opportunity alert when its risk is low.
C18_AlertsPerResult ==
  probe.out # {} =>
    LET result == The(probe.out).result
        alerts == The(probe.out).alerts
        types == {alerts[i].type : i \in 1..Len(alerts)}
        other == ResultOf(Item("ETH", "positive", 39, 0),
                          [symbol |-> "ETH", percentChange24h |-> -1001], 0)
    IN /\ "risk_warning" \in types <=> result.riskLevel = "high"
       /\ "sentiment_divergence" \in types
            <=> (result.alignment = "divergent" /\ result.confidence > 60)
       /\ "opportunity" \in types
            <=> /\ result.alignment = "aligned"
                /\ result.riskLevel = "low"
                /\ result.confidence > 70
       /\ types \subseteq {"risk_warning", "sentiment_divergence", "opportunity"}
       /\ Len(alerts) = Cardinality(types)
       /\ \A i \in 1..Len(alerts) : alerts[i].symbol = result.symbol
       /\ generateMarketAlerts(<<other, result>>)
            = <<Alert("risk_warning", "ETH", "high")>> \o alerts
       /\ generateMarketAlerts(<<result, other>>)
            = alerts \o <<Alert("risk_warning", "ETH", "high")>>
       /\ (/\ probe.sentiment.sentiment = "positive"
           /\ probe.sentiment.confidence = 80
           /\ probe.market.percentChange24h = 500)
            => /\ result.alignment = "aligned"
               /\ result.riskLevel = "low" => "opportunity" \in types

\* The alerts for a positive sentiment of confidence 0.8 and a change of +5%:
\* the result is aligned with low risk, and the one alert is an opportunity.
C18_Witness ==
  /\ probe.out # {}
  /\ probe.sentiment.sentiment = "positive"
  /\ probe.sentiment.confidence = 80
  /\ probe.market.percentChange24h = 500
  /\ The(probe.out).result.alignment = "aligned"
  /\ The(probe.out).result.riskLevel = "low"
  /\ The(probe.out).alerts = <<Alert("opportunity", "BTC", "low")>>

\* The risk factors of a probe, as the claim lists them, with their weights.
Factors(p) ==
  (IF p.sentiment.sentiment # "neutral" /\ p.sentiment.confidence < 40
   THEN {"unsure"} ELSE {})
  \cup (IF p.market.percentChange24h > 1000 \/ p.market.percentChange24h < -1000
        THEN {"volatile"} ELSE {})
  \cup (IF p.correlation > -20000 /\ p.correlation < 20000
        THEN {"uncorrelated"} ELSE {})
  \cup (IF \/ p.sentiment.sentiment = "positive"
              /\ p.market.percentChange24h < -200
           \/ p.sentiment.sentiment = "negative"
              /\ p.market.percentChange24h > 200
        THEN {"divergent"} ELSE {})

Weight(factors) ==
  2 * Cardinality(factors \ {"uncorrelated"})
    + Cardinality(factors \cap {"uncorrelated"})

Rank(level) == CASE level = "low" -> 0 [] level = "medium" -> 1 [] level = "high" -> 2

\* C19: the risk level is the bucket of the score that adds 2 for a
\* non-neutral sentiment with confidence below 0.4, 2 for a 24h change beyond
\* 10% in absolute value, 1 for a coefficient below 0.2 in absolute value and
\* 2 for a divergent alignment: low for 0-1, medium for 2-3, high from 4.
\* Arguments with more risk factors never have a lower level.
C19_RiskLevelIsBucketOfScore ==
  probe.out # {} =>
    LET riskLevel == The(probe.out).riskLevel
        score == Weight(Factors(probe))
    IN /\ riskLevel = "low" <=> score \in 0..1
       /\ riskLevel = "medium" <=> score \in 2..3
       /\ riskLevel = "high" <=> score >= 4
       /\ The(probe.out).result.riskLevel = riskLevel
       /\ \A q \in Probes :
            Factors(probe) \subseteq Factors(q)
              => Rank(assessRiskLevel(q.sentiment, q.market, q.correlation))
                   >= Rank(riskLevel)

\* A score of exactly 4: an unsure positive sentiment against a fall of
\* 2.01%, the coefficient at 0.2.  The level is high.
C19_Witness ==
  /\ probe.out # {}
  /\ Factors(probe) = {"unsure", "divergent"}
  /\ probe.sentiment.sentiment = "positive"
  /\ probe.market.percentChange24h = -201
  /\ probe.correlation = 20000
  /\ The(probe.out).riskLevel = "high"

\* C20: the price direction is up iff the 24h change is above 2%, down iff it
\* is below -2%, sideways otherwise (exactly 2% and -2% are sideways).  The
\* alignment is neutral iff the sentiment is neutral or the direction
\* sideways, aligned iff (positive, up) or (negative, down), divergent
\* otherwise.
C20_DirectionAndAlignment ==
  probe.out # {} =>
    LET change == probe.market.percentChange24h
        sentiment == probe.sentiment.sentiment
        priceDirection == The(probe.out).priceDirection
        alignment == The(probe.out).alignment
    IN /\ priceDirection = "up" <=> change > 200
       /\ priceDirection = "down" <=> change < -200
       /\ priceDirection = "sideways" <=> (change >= -200 /\ change <= 200)
       /\ change \in {-200, 200} => priceDirection = "sideways"
       /\ alignment = "neutral"
            <=> (sentiment = "neutral" \/ priceDirection = "sideways")
       /\ alignment = "aligned"
            <=> \/ sentiment = "positive" /\ priceDirection = "up"
                \/ sentiment = "negative" /\ priceDirection = "down"
       /\ alignment = "divergent"
            <=> \/ sentiment = "positive" /\ priceDirection = "down"
                \/ sentiment = "negative" /\ priceDirection = "up"
       /\ The(probe.out).result.priceDirection = priceDirection
       /\ The(probe.out).result.alignment = alignment

\* A positive sentiment and a change of exactly 2%: sideways, hence neutral.
C20_Witness ==
  /\ probe.out # {}
  /\ probe.sentiment.sentiment = "positive"
  /\ probe.market.percentChange24h = 200
  /\ The(probe.out).priceDirection = "sideways"
  /\ The(probe.out).alignment = "neutral"


\* C21: every item harvestData returns has a relevance score greater than 0.3
\* and at most 1, and the returned list is ordered by non-increasing
\* relevance score.
C21_HarvestScoredAndSorted ==
  probe.out # {} =>
    LET harvestedData == The(probe.out) IN
      /\ \A i \in DOMAIN harvestedData :
           /\ FGreater(harvestedData[i].relevanceScore, RelevanceFloor)
           /\ ~FGreater(harvestedData[i].relevanceScore, <<10, 0>>)
      /\ \A i \in 1..(Len(harvestedData) - 1) :
           ~FGreater(harvestedData[i + 1].relevanceScore,
                     harvestedData[i].relevanceScore)

\* C21 witness: a harvest that returns a score cut to 1, the smallest score
\* above 0.3, and a later sample ranked before an earlier one.
C21_Witness ==
  /\ probe.out # {}
  /\ LET harvestedData == The(probe.out) IN
       /\ \E i \in DOMAIN harvestedData :
            harvestedData[i].relevanceScore = <<10, 0>>
       /\ \E i \in DOMAIN harvestedData :
            harvestedData[i].relevanceScore = <<3, 1>>
       /\ \E i, j \in DOMAIN harvestedData :
            i < j /\ harvestedData[i].id = "3" /\ harvestedData[j].id = "1"


\* C22: for every text, the empty text included, analyzeSentiment returns a
\* confidence between 0.1 and 0.95 and a label that is positive exactly when
\* the returned score is above 0.5, negative exactly when it is below -0.5,
\* and neutral otherwise.
C22_ConfidenceAndLabel ==
  probe.out # {} =>
    LET result == The(probe.out) IN
      /\ result.confidence >= 10
      /\ result.confidence <= 95
      /\ result.sentiment = "positive" <=> result.score > 50
      /\ result.sentiment = "negative" <=> result.score < -50
      /\ result.sentiment = "neutral" <=>
           (result.score <= 50 /\ result.score >= -50)

\* C22 witness: the empty text is analysed.
C22_Witness ==
  /\ probe.text = <<>>
  /\ probe.out # {}
  /\ The(probe.out).sentiment = "neutral"


\* C23: batchProcess returns, with exactly one record for each item whose
\* processing does not throw, in input order and named "<id>_processed"; an
\* item whose processing throws is left out and the batch goes on.
C23_OneRecordPerItemThatDidNotThrow ==
  probe.out # {} =>
    LET processedResults == The(probe.out)
        Kept(i) == {j \in 1..i : ~probe.throws[j]}
    IN /\ Len(processedResults) = Cardinality(Kept(Len(probe.contents)))
       /\ \A i \in DOMAIN probe.contents :
            ~probe.throws[i] =>
              processedResults[Cardinality(Kept(i))].id
                = probe.contents[i].id \o "_processed"

\* C23 witness: a batch whose second item throws returns the first and the
\* third.
C23_Witness ==
  /\ probe.out # {}
  /\ Len(probe.contents) = 3
  /\ probe.throws = <<FALSE, TRUE, FALSE>>
  /\ Len(The(probe.out)) = 2
  /\ The(probe.out)[2].id = probe.contents[3].id \o "_processed"


\* C24: nothing is retried.  A step is entered only while it is pending and
\* never becomes pending again, so its executor is invoked at most once; and
\* no step of a workflow is entered once one of its steps has failed.
C24_NothingRetried ==
  [][\A w \in DOMAIN wf' : \A k \in 1..3 :
       w \in DOMAIN wf =>
         /\ wf[w].steps[k].status # "pending"
              => wf'[w].steps[k].status # "pending"
         /\ (wf'[w].steps[k].status = "running"
              /\ wf[w].steps[k].status # "running")
              => /\ wf[w].steps[k].status = "pending"
                 /\ \A j \in 1..3 : wf[w].steps[j].status # "failed"]_vars

\* C24 witness: the second step has failed, the third is still pending, and
\* the manager has served a request since.
C24_Witness ==
  \E w \in DOMAIN wf :
    /\ wf[w].steps[1].status = "completed"
    /\ wf[w].steps[2].status = "failed"
    /\ wf[w].steps[3].status = "pending"
    /\ last.op \in {"cancel", "list"}


\* C25: whenever a workflow's status is running, exactly one of its steps has
\* status running and currentStep is the id of that step.
C25_OneRunningStepIsCurrent ==
  \A w \in DOMAIN wf :
    wf[w].status = "running" =>
      /\ Cardinality({k \in 1..3 : wf[w].steps[k].status = "running"}) = 1
      /\ \A k \in 1..3 :
           wf[w].steps[k].status = "running" => wf[w].currentStep = StepIds[k]

\* C25 witness: a running workflow whose first step has completed and whose
\* second step is running.
C25_Witness ==
  \E w \in DOMAIN wf :
    /\ wf[w].status = "running"
    /\ wf[w].steps[1].status = "completed"
    /\ wf[w].steps[2].status = "running"
    /\ wf[w].currentStep = StepIds[2]


\* C26: the active set and the history partition the started workflows: every
\* started workflow is in one of them, none is in both, every record of the
\* active set has status pending or running, and every record of the history
\* has status completed or failed.
C26_ActiveAndHistoryPartition ==
  LET inHistory == {completedWorkflows[i] : i \in 1..Len(completedWorkflows)} IN
    /\ activeWorkflows \cup inHistory = DOMAIN wf
    /\ activeWorkflows \cap inHistory = {}
    /\ \A w \in activeWorkflows : wf[w].status \in {"pending", "running"}
    /\ \A w \in inHistory : wf[w].status \in {"completed", "failed"}

\* C26 witness: a workflow cancelled while its second step was in flight has
\* completed: it is in the history, not in the active set.
C26_Witness ==
  \E w \in DOMAIN wf :
    /\ Cancelled(w)
    /\ wf[w].status = "completed"
    /\ w \notin activeWorkflows
    /\ \E i \in 1..Len(completedWorkflows) : completedWorkflows[i] = w


\* C27: each workflow id appears at most once in the completed history, so
\* completedCount + failedCount of metrics() never exceeds the number of
\* workflows that have terminated.
C27_HistoryHoldsEachWorkflowOnce ==
  /\ \A i, j \in 1..Len(completedWorkflows) :
       completedWorkflows[i] = completedWorkflows[j] => i = j
  /\ getWorkflowMetrics.completedCount + getWorkflowMetrics.failedCount
       <= Cardinality({w \in DOMAIN wf : Terminal(wf[w].status)})


\* C28: whenever a workflow's status is completed or failed, none of its steps
\* has status running, and none of its step records changes afterwards; this
\* includes a workflow failed by cancel while a step is in flight.
C28_TerminalWorkflowHasSettledSteps ==
  /\ [](\A w \in DOMAIN wf :
          Terminal(wf[w].status) =>
            \A k \in 1..3 : wf[w].steps[k].status # "running")
  /\ [][\A w \in DOMAIN wf :
          Terminal(wf[w].status) => wf'[w].steps = wf[w].steps]_vars


\* C29: when every stage call returns or throws, every started workflow
\* comes to be out of the active set and in the history with status completed
\* or failed; and a workflow leaves the active set only when a stage call of
\* it returns or throws or when it is cancelled, so a stage call that never
\* returns keeps an uncancelled workflow running in the active set.
C29_SettlingStagesTerminate ==
  /\ \A w \in 1..MaxWorkflows :
       (w \in DOMAIN wf) ~>
         (/\ w \notin activeWorkflows
          /\ \E i \in 1..Len(completedWorkflows) : completedWorkflows[i] = w
          /\ Terminal(wf[w].status))
  /\ [][\A w \in activeWorkflows :
          \/ w \in activeWorkflows' /\ wf'[w].status = "running"
          \/ last'.id = w /\ (Ran("return") \/ Ran("throw") \/ Ran("cancel"))]_vars

\* C29 witness: a workflow whose three stage calls have returned and that
\* nobody cancelled is out of the active set and completed.
C29_Witness ==
  \E w \in DOMAIN wf :
    /\ pc[w] = "done"
    /\ ~Cancelled(w)
    /\ w \notin activeWorkflows
    /\ wf[w].status = "completed"
    /\ \A k \in 1..3 : wf[w].steps[k].status = "completed"


\* C30: a divergent result has risk level medium or high, never low; so the
\* alerts of one result never hold an opportunity together with a
\* risk_warning or a sentiment_divergence.
C30_DivergentIsNeverLowRisk ==
  probe.out # {} =>
    LET result == The(probe.out).result
        alerts == The(probe.out).alerts
        types == {alerts[i].type : i \in 1..Len(alerts)}
    IN /\ result.alignment = "divergent"
            => result.riskLevel \in {"medium", "high"}
       /\ "opportunity" \in types
            => /\ "risk_warning" \notin types
               /\ "sentiment_divergence" \notin types

\* C30 witness: a divergent result whose only risk factor is the divergence:
\* its risk level is medium and its one alert is a sentiment_divergence.
C30_Witness ==
  /\ probe.out # {}
  /\ The(probe.out).result.alignment = "divergent"
  /\ RiskScore(probe.sentiment, probe.market, probe.correlation) = 2
  /\ The(probe.out).result.riskLevel = "medium"
  /\ The(probe.out).alerts
       = <<Alert("sentiment_divergence", "BTC", "medium")>>

====
